---- MODULE Spec2Model ----
(***************************************************************************)
(* Model of HW4/wall_follower.py: the TurtlebotState shared between the    *)
(* two sensor callbacks and the control loop of main(), the five behaviour *)
(* classes (Turn, Drive, TurnToObject, FollowObject, WallFollow) and the   *)
(* two nearest-object searches over a 360-entry range scan.                *)
(*                                                                         *)
(* Fixed point: angles in milliradians, lengths in centimetres, linear     *)
(* speeds in mm/s, angular speeds in mrad/s.                               *)
(***************************************************************************)
EXTENDS Integers, Sequences, FiniteSets, TLC

\* ------------------------------------------------------------------------
\* Program constants
\* ------------------------------------------------------------------------
PI == 3142
ScanLen == 360
ConeLeftEnd == 45
ConeRightStart == 315
TurnTol == 20
TurnSpeed == 200
DriveTol == 2
DriveSpeed == 200
FollowAngSpeed == 400
FollowLinSpeed == 150
FollowDirSplit == 50
WallDirSplit == 50
FollowLower == 40
FollowUpper == 60
FollowAngLim == 40
WallLower == 90
WallUpper == 110
WallAngLim == 40
PhaseETurn == -1571
PhaseFDistance == 100

\* self.angle = self.x = self.y = None until the first pose update
None == -999999
\* the scan-derived attributes do not exist until update_scan assigns them
Unset == -888888

\* ------------------------------------------------------------------------
\* Bounds of the model
\* ------------------------------------------------------------------------
\* front distances of the mission scans: DistStep * 1 .. DistStep * MaxDist
DistStep == 30
MaxDist == 4
\* a reading nearer than every front distance, and one farther
Near == 10
Far == 300
\* pose feed: a yaw within the follow tolerance of 0 and outside the turn tolerance
YawJitter == 30
\* readings of the scans the two searches are checked on: 0..MaxRange
MaxRange == 2
\* cap of the count of FollowObject steps
MaxFoSteps == 2
\* poses of the drive feed: within DriveTol + MaxSlack of the target along x,
\* and 0 or DriveSide off the line
MaxSlack == 1
DriveSide == 20

\* what the robot turns in one tick under an angular command: below the 0.02
\* of Turn
TurnRes == 15

\* what the front distance changes in one tick under a linear command
DistRes == 10

\* initial front distances are DistRes * 1..MaxPlantDist
MaxPlantDist == 14

\* the headings near the wrap start this far from pi
WrapMargin == 12

\* ------------------------------------------------------------------------
\* angles.py, distances.py
\* ------------------------------------------------------------------------
RECURSIVE rectify_angle_pi(_)
rectify_angle_pi(a) ==
    IF a > PI THEN rectify_angle_pi(a - 2 * PI)
    ELSE IF a <= -PI THEN rectify_angle_pi(a + 2 * PI)
    ELSE a

degrees_to_radians(d) == (d * PI) \div 180

\* the square of euclidian_distance(x1, x2, y1, y2)
euclidian_distance_sq(x1, x2, y1, y2) ==
    (x2 - x1) * (x2 - x1) + (y2 - y1) * (y2 - y1)

Abs(n) == IF n < 0 THEN -n ELSE n

\* ------------------------------------------------------------------------
\* findObj360, findObjFront
\* ------------------------------------------------------------------------
\* the ValueError of min() over an empty generator
Raised == <<>>

Positive(s) == {s[i] : i \in {j \in 1..Len(s) : s[j] > 0}}

MinOf(S) == CHOOSE m \in S : \A n \in S : m <= n

\* list.index(v): 0-based position of the first occurrence
IndexOf(s, v) == (CHOOSE i \in 1..Len(s) : s[i] = v /\ \A j \in 1..(i - 1) : s[j] # v) - 1

\* array[lo:hi]
Slice(s, lo, hi) == SubSeq(s, lo + 1, hi)

findObj360(array) ==
    IF Positive(array) = {} THEN Raised
    ELSE LET temp == MinOf(Positive(array))
         IN  <<IndexOf(array, temp), temp>>

findObjFront(array) ==
    LET left  == Slice(array, 0, ConeLeftEnd)
        right == Slice(array, ConeRightStart, ScanLen)
    IN  IF Positive(left) = {} THEN Raised
        ELSE IF Positive(right) = {} THEN Raised
        ELSE LET temp  == MinOf(Positive(left))
                 temp2 == MinOf(Positive(right))
             IN  IF temp <= temp2
                 THEN <<IndexOf(left, temp), temp>>
                 ELSE <<IndexOf(right, temp2) + ConeRightStart, temp2>>

\* ranges with reading d1 at bearing b1, d2 at bearing b2, bg elsewhere
Scan(bg, b1, d1, b2, d2) ==
    [i \in 1..ScanLen |-> IF i - 1 = b1 THEN d1 ELSE IF i - 1 = b2 THEN d2 ELSE bg]

\* what the two searches of update_scan give on msg.ranges
ScanOutcome(array) == [o360 |-> findObj360(array), front |-> findObjFront(array)]

\* ------------------------------------------------------------------------
\* Behaviours: constructors and act()
\* ------------------------------------------------------------------------
Twist(lin, ang) == [linear |-> lin, angular |-> ang]

Stop == Twist(0, 0)

\* the step leaves the object as it is and publishes cmds
Acted(self, cmds) == [self |-> self, cmds |-> cmds, meter |-> FALSE]

\* Turn.__init__ that leaves the target as the sum, outside (-pi, pi]
Turn_init_NoWrap(state_angle, angle_arg) ==
    [kind         |-> "Turn",
     clockwise    |-> ~(angle_arg >= 0),
     target_angle |-> state_angle + angle_arg,
     done         |-> FALSE]

Turn_init(state_angle, angle_arg) ==
    [kind         |-> "Turn",
     clockwise    |-> ~(angle_arg >= 0),
     target_angle |-> rectify_angle_pi(state_angle + angle_arg),
     done         |-> FALSE]

\* Turn.act with self.done = True written after the if, as the follow classes do
Turn_act_DoneAlways(self, state_angle) ==
    LET error == Abs(self.target_angle - state_angle)
    IN  IF error > TurnTol
        THEN Acted([self EXCEPT !.done = TRUE],
                   <<Twist(0, IF self.clockwise THEN -TurnSpeed ELSE TurnSpeed)>>)
        ELSE Acted([self EXCEPT !.done = TRUE], <<Stop>>)

\* Turn.act with the two directions exchanged
Turn_act_Swapped(self, state_angle) ==
    LET error == Abs(self.target_angle - state_angle)
    IN  IF error > TurnTol
        THEN Acted(self, <<Twist(0, IF self.clockwise THEN TurnSpeed ELSE -TurnSpeed)>>)
        ELSE Acted([self EXCEPT !.done = TRUE], <<Stop>>)

Turn_act(self, state_angle) ==
    LET error == Abs(self.target_angle - state_angle)
    IN  IF error > TurnTol
        THEN Acted(self, <<Twist(0, IF self.clockwise THEN -TurnSpeed ELSE TurnSpeed)>>)
        ELSE Acted([self EXCEPT !.done = TRUE], <<Stop>>)

Drive_init(state_x, state_y, distance) ==
    [kind            |-> "Drive",
     init_x          |-> state_x,
     init_y          |-> state_y,
     forward         |-> distance >= 0,
     target_distance |-> Abs(distance),
     done            |-> FALSE]

\* error > .02, with error = |target_distance - euclidian_distance(...)|,
\* decided on the squares
Drive_error_exceeds(self, state_x, state_y) ==
    LET dsq == euclidian_distance_sq(self.init_x, state_x, self.init_y, state_y)
        hi  == self.target_distance + DriveTol
        lo  == self.target_distance - DriveTol
    IN  dsq > hi * hi \/ (lo > 0 /\ dsq < lo * lo)

\* Drive.act that publishes move_cmd without having set linear.x
Drive_act_NoSpeed(self, state_x, state_y) ==
    IF Drive_error_exceeds(self, state_x, state_y)
    THEN Acted(self, <<Stop>>)
    ELSE Acted([self EXCEPT !.done = TRUE], <<Stop>>)

Drive_act(self, state_x, state_y) ==
    IF Drive_error_exceeds(self, state_x, state_y)
    THEN Acted(self, <<Twist(IF self.forward THEN DriveSpeed ELSE -DriveSpeed, 0)>>)
    ELSE Acted([self EXCEPT !.done = TRUE], <<Stop>>)

TurnToObject_init == [kind |-> "TurnToObject", done |-> FALSE]

\* TurnToObject.act that builds the Turn without storing it in
\* state.current_action: the dispatcher stays installed, with its done set
TurnToObject_act_NotInstalled(state_angle, state_closest_obj_ang) ==
    Acted([kind |-> "TurnToObject", done |-> TRUE], <<>>)

\* installs the Turn as current_action; the dispatcher's own done flag is
\* set on an object no longer referenced
TurnToObject_act(state_angle, state_closest_obj_ang) ==
    LET goal == rectify_angle_pi(state_closest_obj_ang)
    IN  Acted(Turn_init(state_angle, goal), <<>>)

\* FollowObject.__init__ that takes the heading itself as its target
FollowObject_init_Ahead(state_angle, state_closest_obj_front_ang) ==
    LET goal_angle == rectify_angle_pi(state_closest_obj_front_ang)
    IN  [kind          |-> "FollowObject",
         lower_bound   |-> FollowLower,
         upper_bound   |-> FollowUpper,
         angle_err_lim |-> FollowAngLim,
         clockwise     |-> ~(goal_angle >= 0),
         target_angle  |-> rectify_angle_pi(state_angle),
         done          |-> FALSE]

FollowObject_init(state_angle, state_closest_obj_front_ang) ==
    LET goal_angle == rectify_angle_pi(state_closest_obj_front_ang)
    IN  [kind          |-> "FollowObject",
         lower_bound   |-> FollowLower,
         upper_bound   |-> FollowUpper,
         angle_err_lim |-> FollowAngLim,
         clockwise     |-> ~(goal_angle >= 0),
         target_angle  |-> rectify_angle_pi(state_angle + goal_angle),
         done          |-> FALSE]

WallFollow_init(state_angle, state_closest_obj_front_ang) ==
    LET goal_angle == rectify_angle_pi(state_closest_obj_front_ang)
    IN  [kind          |-> "WallFollow",
         lower_bound   |-> WallLower,
         upper_bound   |-> WallUpper,
         angle_err_lim |-> WallAngLim,
         clockwise     |-> ~(goal_angle >= 0),
         target_angle  |-> rectify_angle_pi(state_angle + goal_angle),
         done          |-> FALSE]

\* move_cmd.angular.z of FollowObject.act and WallFollow.act
Follow_angular(self, error) ==
    IF error > self.angle_err_lim
    THEN IF self.clockwise THEN -FollowAngSpeed ELSE FollowAngSpeed
    ELSE 0

\* move_cmd.linear.x of FollowObject.act; r1, r2, r3 are the successive
\* reads of state.closest_obj_front_dist
FollowObject_linear(self, r1, r2, r3) ==
    IF r1 > self.upper_bound \/ r2 < self.lower_bound
    THEN IF r3 - FollowDirSplit > 0 THEN FollowLinSpeed ELSE -FollowLinSpeed
    ELSE 0

\* move_cmd.linear.x of WallFollow.act
WallFollow_linear(self, r1, r2, r3) ==
    IF r1 > self.upper_bound \/ r2 < self.lower_bound
    THEN IF r3 - WallDirSplit > 0 THEN FollowLinSpeed ELSE -FollowLinSpeed
    ELSE 0

\* the test guarding the extra zero command of FollowObject.act; r4, r5 are
\* its reads of state.closest_obj_front_dist
FollowObject_in_position(self, error, r4, r5) ==
    error <= self.angle_err_lim /\ (r4 <= self.upper_bound /\ r5 >= self.lower_bound)

\* the test guarding the extra zero command and state.meter = True
WallFollow_in_position(self, error, r4, r5) ==
    error <= self.angle_err_lim /\ (r4 <= self.upper_bound /\ r5 >= self.lower_bound)

\* FollowObject.act with the state.meter = True of WallFollow.act copied in
FollowObject_act_SetsMeter(self, state_angle, r1, r2, r3, r4, r5) ==
    LET error    == Abs(self.target_angle - state_angle)
        move_cmd == Twist(FollowObject_linear(self, r1, r2, r3), Follow_angular(self, error))
    IN  [self  |-> [self EXCEPT !.done = TRUE],
         cmds  |-> IF FollowObject_in_position(self, error, r4, r5)
                   THEN <<move_cmd, Stop>> ELSE <<move_cmd>>,
         meter |-> FollowObject_in_position(self, error, r4, r5)]

\* FollowObject.act that reports done only once in position
FollowObject_act_DoneInPosition(self, state_angle, r1, r2, r3, r4, r5) ==
    LET error    == Abs(self.target_angle - state_angle)
        move_cmd == Twist(FollowObject_linear(self, r1, r2, r3), Follow_angular(self, error))
    IN  [self  |-> [self EXCEPT !.done = FollowObject_in_position(self, error, r4, r5)],
         cmds  |-> IF FollowObject_in_position(self, error, r4, r5)
                   THEN <<move_cmd, Stop>> ELSE <<move_cmd>>,
         meter |-> FALSE]

FollowObject_act(self, state_angle, r1, r2, r3, r4, r5) ==
    LET error    == Abs(self.target_angle - state_angle)
        move_cmd == Twist(FollowObject_linear(self, r1, r2, r3), Follow_angular(self, error))
    IN  [self  |-> [self EXCEPT !.done = TRUE],
         cmds  |-> IF FollowObject_in_position(self, error, r4, r5)
                   THEN <<move_cmd, Stop>> ELSE <<move_cmd>>,
         meter |-> FALSE]

WallFollow_act(self, state_angle, r1, r2, r3, r4, r5) ==
    LET error    == Abs(self.target_angle - state_angle)
        move_cmd == Twist(WallFollow_linear(self, r1, r2, r3), Follow_angular(self, error))
    IN  [self  |-> [self EXCEPT !.done = TRUE],
         cmds  |-> IF WallFollow_in_position(self, error, r4, r5)
                   THEN <<move_cmd, Stop>> ELSE <<move_cmd>>,
         meter |-> WallFollow_in_position(self, error, r4, r5)]

\* ------------------------------------------------------------------------
\* State
\* ------------------------------------------------------------------------
VARIABLES
    angle, x, y,                 \* TurtlebotState: pose, written by update_odom
    closest_obj_ang,             \* radians of the full-circle bearing
    closest_obj_front_ang,       \* radians of the forward-cone bearing
    closest_obj_front_dist,      \* forward-cone distance
    ready, meter, current_action,
    pc,                          \* where the main thread is
    at_sleep,                    \* a loop iteration has ended in rate.sleep(), nothing ran since
    is_shutdown,                 \* rospy.is_shutdown()
    hook,                        \* rospy.on_shutdown(state.shutdown) has run
    tick_cmds,                   \* commands published since the last rate.sleep()
    last_cmd,                    \* the last command given to cmd_vel, if any
    stops,                       \* zero commands published by state.shutdown
    fo_steps,                    \* FollowObject.act calls made so far, up to MaxFoSteps
    ctor_arg,                    \* the argument of the last constructor call, 0 if it took none
    mission,                     \* "full": main as written; "variant": lines 351-384 alone;
                                 \* "drive": a Drive on its own; "scenario": main on one
                                 \* scan; "turn", "wall": a Turn, the loop of phase D, each
                                 \* with the robot answering its commands
    turned,                      \* how far the robot has rotated since the run began
    ranges, found                \* a scan and the result of a search on it

vars == <<angle, x, y, closest_obj_ang, closest_obj_front_ang, closest_obj_front_dist,
          ready, meter, current_action, pc, at_sleep, is_shutdown, hook,
          tick_cmds, last_cmd, stops, fo_steps, ctor_arg, mission, turned, ranges, found>>

sensed == <<angle, x, y, closest_obj_ang, closest_obj_front_ang, closest_obj_front_dist, ready>>

searchVars == <<ranges, found>>

NotSearched == [op |-> "none"]

NoAction == [kind |-> "None"]

Phases == {"A", "B", "C", "D", "E", "F"}

Alive == pc \notin {"done", "crashed"}

\* ------------------------------------------------------------------------
\* Sensor feeds
\* ------------------------------------------------------------------------
Dists == {DistStep * k : k \in 1..MaxDist}

\* open ground: nothing but at most one object to the right and one ahead
OpenScans ==
    {Scan(0, 270, d1, 0, d2) : d1 \in {0, Near}, d2 \in {0, DistStep}}

\* a room: walls far away all around, an object ahead, at most one to the left
RoomScans ==
    {Scan(Far, 90, d1, b2, d2) : d1 \in {Far, Near}, b2 \in {0, 330}, d2 \in Dists}

MissionScans == OpenScans \cup RoomScans

ScanOutcomes == {ScanOutcome(m) : m \in MissionScans}

\* the scans that may land inside a step: the object dead ahead, at each distance
TornOutcomes == {ScanOutcome(Scan(Far, 90, Far, 0, d)) : d \in Dists}

\* one scan, kept through the run: walls far away, the nearest object of the
\* full circle at bearing 90, the nearest object of the cone at bearing 30 in
\* the middle of FollowObject's band
ScenarioScan == Scan(Far, 90, Near, 30, (FollowLower + FollowUpper) \div 2)

QuarterTurn == PI \div 2

Yaws == {0, YawJitter, QuarterTurn}

\* the pose feed: every yaw at the origin, and one pose a drive away from it
OdomMsgs ==
    {[yaw |-> a, px |-> 0, py |-> 0] : a \in Yaws}
        \cup {[yaw |-> 0, px |-> PhaseFDistance - DriveTol, py |-> 0]}

\* the distances Drive is checked on, and the poses of the feed it is checked under
DriveDistances == {-PhaseFDistance, 0, PhaseFDistance}

DrivePositions ==
    {<<px, py>> :
        px \in {0} \cup {PhaseFDistance + k : k \in -(DriveTol + MaxSlack)..(DriveTol + MaxSlack)},
        py \in {0, DriveSide}}

DriveMsgs == {[yaw |-> 0, px |-> p[1], py |-> p[2]] : p \in DrivePositions}

\* the pose messages of the run
PoseFeed == IF mission = "drive" THEN DriveMsgs ELSE OdomMsgs

\* the scans of the run, and those that may land inside a step
ScanFeed == IF mission = "scenario" THEN {ScanOutcome(ScenarioScan)} ELSE ScanOutcomes

TornFeed == IF mission = "scenario" THEN ScanFeed ELSE TornOutcomes

TurtlebotState_init(m) ==
    /\ angle = None /\ x = None /\ y = None
    /\ closest_obj_ang = Unset
    /\ closest_obj_front_ang = Unset
    /\ closest_obj_front_dist = Unset
    /\ ready = FALSE
    /\ current_action = NoAction
    /\ meter = FALSE
    /\ pc = "wait"
    /\ at_sleep = FALSE
    /\ is_shutdown = FALSE
    /\ hook = FALSE
    /\ tick_cmds = <<>>
    /\ last_cmd = <<>>
    /\ stops = 0
    /\ fo_steps = 0
    /\ ctor_arg = 0
    /\ mission = m
    /\ turned = 0

Init == TurtlebotState_init("full") /\ ranges = <<>> /\ found = NotSearched

update_odom(msg) ==
    /\ Alive
    /\ angle' = msg.yaw
    /\ x' = msg.px
    /\ y' = msg.py
    /\ ready' = TRUE
    /\ UNCHANGED <<closest_obj_ang, closest_obj_front_ang, closest_obj_front_dist,
                   meter, current_action, pc, at_sleep, is_shutdown, hook,
                   tick_cmds, last_cmd, stops, fo_steps, ctor_arg, mission, turned, ranges, found>>

\* o is what findObj360 and findObjFront give on msg.ranges; an exception of
\* either ends the callback where it is raised
update_scan(o) ==
    /\ Alive
    /\ closest_obj_ang' = IF o.o360 = Raised THEN closest_obj_ang
                          ELSE degrees_to_radians(o.o360[1])
    /\ IF o.o360 = Raised \/ o.front = Raised
       THEN UNCHANGED <<closest_obj_front_ang, closest_obj_front_dist, ready>>
       ELSE /\ closest_obj_front_ang' = degrees_to_radians(o.front[1])
            /\ closest_obj_front_dist' = o.front[2]
            /\ ready' = TRUE
    /\ UNCHANGED <<angle, x, y, meter, current_action, pc, at_sleep, is_shutdown, hook,
                   tick_cmds, last_cmd, stops, fo_steps, ctor_arg, mission, turned, ranges, found>>

OdomUpdate == \E msg \in PoseFeed : update_odom(msg)

ScanUpdate == \E o \in ScanFeed : update_scan(o)

\* ------------------------------------------------------------------------
\* Shutdown and process exit
\* ------------------------------------------------------------------------
\* state.shutdown, which runs only if it was registered (main, line 319)
shutdown(registered) ==
    IF registered
    THEN last_cmd' = <<Stop>> /\ stops' = stops + 1
    ELSE UNCHANGED <<last_cmd, stops>>

\* an external shutdown request while the process runs
Interrupt ==
    /\ Alive
    /\ ~is_shutdown
    /\ is_shutdown' = TRUE
    /\ shutdown(hook)
    /\ UNCHANGED <<sensed, meter, current_action, pc, at_sleep, hook,
                   tick_cmds, fo_steps, ctor_arg, mission, turned, searchVars>>

\* the interrupted main thread leaves through the exception raised in it
InterruptedExit ==
    /\ Alive
    /\ is_shutdown
    /\ pc' = "done"
    /\ UNCHANGED <<sensed, meter, current_action, at_sleep, is_shutdown, hook,
                   tick_cmds, last_cmd, stops, fo_steps, ctor_arg, mission, turned, searchVars>>

\* main returns or raises: the interpreter exits and rospy shuts down
ProcessExit(to, cmds) ==
    /\ pc' = to
    /\ is_shutdown' = TRUE
    /\ IF is_shutdown
       THEN stops' = stops /\ last_cmd' = IF cmds = <<>> THEN last_cmd ELSE <<cmds[Len(cmds)]>>
       ELSE shutdown(hook)

\* ------------------------------------------------------------------------
\* main
\* ------------------------------------------------------------------------
\* TurtlebotState.__init__, lines 277-279, then main, line 319
WaitReady ==
    /\ pc = "wait"
    /\ ~is_shutdown
    /\ ready
    /\ pc' = "pause"
    /\ hook' = TRUE
    /\ UNCHANGED <<sensed, meter, current_action, at_sleep, is_shutdown,
                   tick_cmds, last_cmd, stops, fo_steps, ctor_arg, mission, turned, searchVars>>

FirstPhase == IF mission \in {"full", "scenario"} THEN "A" ELSE "C"

\* main, lines 324-330 (or 351): the pause, then the first behaviour
Pause ==
    /\ pc = "pause"
    /\ ~is_shutdown
    /\ pc' = FirstPhase
    /\ current_action' = TurnToObject_init
    /\ at_sleep' = FALSE
    /\ UNCHANGED <<sensed, meter, is_shutdown, hook,
                   tick_cmds, last_cmd, stops, fo_steps, ctor_arg, mission, turned, searchVars>>

Exception == [kind |-> "Exception"]

NextPhase(p) ==
    CASE p = "A" -> "B"
      [] p = "B" -> "C"
      [] p = "C" -> "D"
      [] p = "D" -> "E"
      [] p = "E" -> "F"
      [] p = "F" -> "done"

\* the constructor call that opens phase p: lines 338, 351, 359, 370, 378
Install(p) ==
    CASE p = "B" -> IF closest_obj_front_ang = Unset \/ angle = None THEN Exception
                    ELSE FollowObject_init(angle, closest_obj_front_ang)
      [] p = "C" -> TurnToObject_init
      [] p = "D" -> IF closest_obj_front_ang = Unset \/ angle = None THEN Exception
                    ELSE WallFollow_init(angle, closest_obj_front_ang)
      [] p = "E" -> IF angle = None THEN Exception
                    ELSE Turn_init(angle, PhaseETurn)
      [] p = "F" -> Drive_init(x, y, PhaseFDistance)

\* the argument given to the constructor that opens phase p, 0 if it takes none
InstallArg(p) ==
    CASE p = "E" -> PhaseETurn
      [] p = "F" -> PhaseFDistance
      [] OTHER -> 0

Kind == current_action.kind

NoMsg == [none |-> TRUE]

\* What one act() call can read while the callbacks run in their own
\* threads. A step is short against the period of a feed: at most one
\* message lands inside it. dist are the successive reads of
\* state.closest_obj_front_dist (lines 179-181, 192-193 and 235-236, 247),
\* pos the reads of state.x and state.y (lines 103-104); scan and odom are
\* the message, if any, whose callback ran between two of these reads.
Untorn ==
    [dist |-> [i \in 1..5 |-> closest_obj_front_dist], pos |-> <<x, y>>,
     scan |-> NoMsg, odom |-> NoMsg]

Interleavings(b) ==
    {Untorn} \cup
    (IF b.kind \in {"FollowObject", "WallFollow"}
     THEN {[dist |-> [i \in 1..5 |-> IF i <= t THEN closest_obj_front_dist ELSE o.front[2]],
            pos  |-> <<x, y>>, scan |-> o, odom |-> NoMsg] :
               t \in 1..4, o \in TornFeed}
     ELSE IF b.kind = "Drive"
     THEN UNION {{[dist |-> Untorn.dist, pos |-> p, scan |-> NoMsg, odom |-> msg] :
                     p \in {<<x, msg.py>>, <<msg.px, y>>}} : msg \in PoseFeed}
     ELSE {})

\* state.current_action.act() reading as interleaving i gives
Act(b, i) ==
    CASE b.kind = "Turn" -> Turn_act(b, angle)
      [] b.kind = "Drive" ->
            IF x = None \/ b.init_x = None THEN Exception
            ELSE Drive_act(b, i.pos[1], i.pos[2])
      [] b.kind = "TurnToObject" ->
            IF closest_obj_ang = Unset \/ closest_obj_front_ang = Unset \/ angle = None
            THEN Exception
            ELSE TurnToObject_act(angle, closest_obj_ang)
      [] b.kind = "FollowObject" ->
            FollowObject_act(b, angle, i.dist[1], i.dist[2], i.dist[3], i.dist[4], i.dist[5])
      [] b.kind = "WallFollow" ->
            WallFollow_act(b, angle, i.dist[1], i.dist[2], i.dist[3], i.dist[4], i.dist[5])

\* the sensed fields once the callback that ran inside the step has returned
SensedAfter(i) ==
    IF i.scan # NoMsg
    THEN /\ closest_obj_ang' = degrees_to_radians(i.scan.o360[1])
         /\ closest_obj_front_ang' = degrees_to_radians(i.scan.front[1])
         /\ closest_obj_front_dist' = i.scan.front[2]
         /\ UNCHANGED <<angle, x, y, ready>>
    ELSE IF i.odom # NoMsg
    THEN /\ angle' = i.odom.yaw
         /\ x' = i.odom.px
         /\ y' = i.odom.py
         /\ UNCHANGED <<closest_obj_ang, closest_obj_front_ang, closest_obj_front_dist, ready>>
    ELSE UNCHANGED sensed

\* the commands of this tick so far
Before == IF at_sleep THEN <<>> ELSE tick_cmds

Raise ==
    /\ ProcessExit("crashed", <<>>)
    /\ tick_cmds' = Before
    /\ UNCHANGED <<sensed, meter, current_action, at_sleep, hook, fo_steps, ctor_arg,
                   mission, turned, searchVars>>

\* the loop is left (break, or its guard is false): the next phase opens
\* without a rate.sleep() in between
Leave ==
    IF NextPhase(pc) = "done"
    THEN /\ ProcessExit("done", <<>>)
         /\ tick_cmds' = Before
         /\ UNCHANGED <<sensed, meter, current_action, at_sleep, hook, fo_steps,
                        ctor_arg, mission, turned, searchVars>>
    ELSE IF Install(NextPhase(pc)) = Exception
    THEN Raise
    ELSE /\ pc' = NextPhase(pc)
         /\ current_action' = Install(NextPhase(pc))
         /\ at_sleep' = FALSE
         /\ tick_cmds' = Before
         /\ ctor_arg' = InstallArg(NextPhase(pc))
         /\ UNCHANGED <<sensed, meter, is_shutdown, hook, last_cmd, stops, fo_steps,
                        mission, turned, searchVars>>

\* state.current_action.act(); rate.sleep()
Step ==
    IF Act(current_action, Untorn) = Exception
    THEN Raise
    ELSE \E i \in Interleavings(current_action) :
         LET r == Act(current_action, i)
         IN  /\ current_action' = r.self
             /\ meter' = (meter \/ r.meter)
             /\ tick_cmds' = Before \o r.cmds
             /\ last_cmd' = IF r.cmds = <<>> THEN last_cmd ELSE <<r.cmds[Len(r.cmds)]>>
             /\ at_sleep' = TRUE
             /\ fo_steps' = IF current_action.kind = "FollowObject" /\ fo_steps < MaxFoSteps
                            THEN fo_steps + 1 ELSE fo_steps
             /\ ctor_arg' = IF Kind = "TurnToObject"
                            THEN rectify_angle_pi(closest_obj_ang) ELSE ctor_arg
             /\ SensedAfter(i)
             /\ UNCHANGED <<pc, is_shutdown, hook, stops, mission, turned, searchVars>>

\* state.current_action = WallFollow(state); rate.sleep()  (lines 343, 367)
Rearm ==
    /\ current_action' = WallFollow_init(angle, closest_obj_front_ang)
    /\ tick_cmds' = Before
    /\ at_sleep' = TRUE
    /\ UNCHANGED <<sensed, meter, pc, is_shutdown, hook, last_cmd, stops, fo_steps,
                   ctor_arg, mission, turned, searchVars>>

\* one pass through the while loop of the current phase
LoopIteration ==
    /\ pc \in Phases
    /\ IF is_shutdown THEN Leave
       ELSE IF ~current_action.done THEN Step
       ELSE IF pc = "B" THEN Rearm
       ELSE IF pc = "D" /\ ~meter THEN Rearm
       ELSE Leave

Next ==
    \/ OdomUpdate
    \/ ScanUpdate
    \/ Interrupt
    \/ InterruptedExit
    \/ WaitReady
    \/ Pause
    \/ LoopIteration

Spec == Init /\ [][Next]_vars

\* main without an external shutdown request, every thread scheduled
NextUninterrupted ==
    \/ OdomUpdate
    \/ ScanUpdate
    \/ WaitReady
    \/ Pause
    \/ LoopIteration

LiveSpec ==
    /\ Init
    /\ [][NextUninterrupted]_vars
    /\ WF_vars(OdomUpdate)
    /\ WF_vars(ScanUpdate)
    /\ WF_vars(WaitReady)
    /\ WF_vars(Pause)
    /\ WF_vars(LoopIteration)

\* the second mission block alone: main with lines 328-345 taken out
InitVariant == TurtlebotState_init("variant") /\ ranges = <<>> /\ found = NotSearched

SpecVariant == InitVariant /\ [][Next]_vars

\* either mission block: every phase and every kind of behaviour is stepped
\* main as written, started on the scenario scan at heading 0: both
\* callbacks have run once
InitScenario ==
    /\ angle = 0 /\ x = 0 /\ y = 0
    /\ closest_obj_ang = degrees_to_radians(ScanOutcome(ScenarioScan).o360[1])
    /\ closest_obj_front_ang = degrees_to_radians(ScanOutcome(ScenarioScan).front[1])
    /\ closest_obj_front_dist = ScanOutcome(ScenarioScan).front[2]
    /\ ready = TRUE
    /\ current_action = NoAction
    /\ meter = FALSE
    /\ pc = "wait"
    /\ at_sleep = FALSE
    /\ is_shutdown = FALSE
    /\ hook = FALSE
    /\ tick_cmds = <<>>
    /\ last_cmd = <<>>
    /\ stops = 0
    /\ fo_steps = 0
    /\ ctor_arg = 0
    /\ mission = "scenario"
    /\ turned = 0
    /\ ranges = <<>> /\ found = NotSearched

SpecScenario == InitScenario /\ [][Next]_vars

\* ------------------------------------------------------------------------
\* The robot answering the commands: one resolution step per tick
\* ------------------------------------------------------------------------
\* the signed change of heading in a tick that published cmds
Turned(cmds) ==
    IF cmds = <<>> \/ cmds[1].angular = 0 THEN 0
    ELSE IF cmds[1].angular > 0 THEN TurnRes ELSE -TurnRes

\* the signed change of the front distance in a tick that published cmds
Advanced(cmds) ==
    IF cmds = <<>> \/ cmds[1].linear = 0 THEN 0
    ELSE IF cmds[1].linear > 0 THEN -DistRes ELSE DistRes

\* state.current_action.act(); rate.sleep(), the callbacks reporting before
\* the next tick what the command of this one did
PlantStep ==
    /\ \/ mission = "turn" /\ pc = "E" /\ Kind = "Turn"
       \/ mission = "wall" /\ pc = "D" /\ Kind = "WallFollow"
    /\ ~is_shutdown
    /\ ~current_action.done
    /\ turned < 2 * PI
    /\ LET r == Act(current_action, Untorn)
       IN  /\ current_action' = r.self
           /\ meter' = (meter \/ r.meter)
           /\ tick_cmds' = r.cmds
           /\ last_cmd' = <<r.cmds[Len(r.cmds)]>>
           /\ at_sleep' = TRUE
           /\ angle' = rectify_angle_pi(angle + Turned(r.cmds))
           /\ turned' = turned + Abs(Turned(r.cmds))
           /\ closest_obj_front_ang' =
                  IF mission = "wall"
                  THEN rectify_angle_pi(closest_obj_front_ang - Turned(r.cmds))
                  ELSE closest_obj_front_ang
           /\ closest_obj_front_dist' =
                  IF mission = "wall"
                  THEN closest_obj_front_dist + Advanced(r.cmds)
                  ELSE closest_obj_front_dist
    /\ UNCHANGED <<x, y, closest_obj_ang, ready, pc, is_shutdown, hook, stops, fo_steps,
                   ctor_arg, mission, searchVars>>

\* a tick on a behaviour that is done: main re-installs it or goes on
PlantNext == PlantStep \/ (current_action.done /\ LoopIteration)

\* a state of main inside a phase, the sensed fields set
InPhase(m, p, heading, bearing, dist) ==
    /\ angle = heading /\ x = 0 /\ y = 0
    /\ closest_obj_ang = bearing
    /\ closest_obj_front_ang = bearing
    /\ closest_obj_front_dist = dist
    /\ ready = TRUE
    /\ meter = FALSE
    /\ pc = p
    /\ at_sleep = FALSE
    /\ is_shutdown = FALSE
    /\ hook = TRUE
    /\ tick_cmds = <<>>
    /\ last_cmd = <<>>
    /\ stops = 0
    /\ fo_steps = 0
    /\ mission = m
    /\ turned = 0
    /\ ranges = <<>> /\ found = NotSearched

\* the headings and deltas a Turn is built on: at rest, next to either side
\* of the wrap, and on it
TurnHeadings == {0, QuarterTurn, PI - WrapMargin, WrapMargin - PI, PI}

TurnDeltas ==
    {0, TurnTol, -TurnTol, 2 * WrapMargin, -2 * WrapMargin, QuarterTurn, -QuarterTurn,
     PI - WrapMargin, WrapMargin - PI, PI, 1 - PI}

\* Turn(state, delta) just installed
InitTurn ==
    \E heading \in TurnHeadings, delta \in TurnDeltas :
        /\ InPhase("turn", "E", heading, 0, Far)
        /\ current_action = Turn_init(heading, delta)
        /\ ctor_arg = delta

SpecTurn == InitTurn /\ [][PlantNext]_vars /\ WF_vars(PlantNext)

PlantDists == {DistRes * k : k \in 1..MaxPlantDist}

PlantBearings == {0, 4 * TurnRes, -4 * TurnRes}

\* WallFollow(state) just installed by phase D
InitWall ==
    \E bearing \in PlantBearings, dist \in PlantDists :
        /\ InPhase("wall", "D", 0, bearing, dist)
        /\ current_action = WallFollow_init(0, bearing)
        /\ ctor_arg = 0

SpecWall == InitWall /\ [][PlantNext]_vars /\ WF_vars(PlantNext)

InitMissions ==
    \E m \in {"full", "variant"} :
        TurtlebotState_init(m) /\ ranges = <<>> /\ found = NotSearched

SpecMissions == InitMissions /\ [][Next]_vars

\* ------------------------------------------------------------------------
\* The two searches on their own
\* ------------------------------------------------------------------------
TestBearings == <<0, 44, 45, 314, 315, 359>>

\* every assignment of 0..MaxRange to the test bearings, 0 elsewhere
TestScans ==
    {[i \in 1..ScanLen |->
        IF \E k \in DOMAIN TestBearings : TestBearings[k] = i - 1
        THEN f[CHOOSE k \in DOMAIN TestBearings : TestBearings[k] = i - 1]
        ELSE 0] : f \in [DOMAIN TestBearings -> 0..MaxRange]}

InitScan == TurtlebotState_init("full") /\ ranges \in TestScans /\ found = NotSearched

SearchFront ==
    /\ found' = [op |-> "front", result |-> findObjFront(ranges)]
    /\ UNCHANGED <<sensed, meter, current_action, pc, at_sleep, is_shutdown, hook,
                   tick_cmds, last_cmd, stops, fo_steps, ctor_arg, mission, turned, ranges>>

Search360 ==
    /\ found' = [op |-> "360", result |-> findObj360(ranges)]
    /\ UNCHANGED <<sensed, meter, current_action, pc, at_sleep, is_shutdown, hook,
                   tick_cmds, last_cmd, stops, fo_steps, ctor_arg, mission, turned, ranges>>

NextScan == SearchFront \/ Search360

SpecScan == InitScan /\ [][NextScan]_vars

\* ------------------------------------------------------------------------
\* Drive on its own: any distance, from any start, under any pose feed
\* ------------------------------------------------------------------------
InitDrive ==
    \E p \in DrivePositions, d \in DriveDistances :
        /\ angle = 0 /\ x = p[1] /\ y = p[2]
        /\ closest_obj_ang = 0
        /\ closest_obj_front_ang = 0
        /\ closest_obj_front_dist = Far
        /\ ready = TRUE
        /\ current_action = Drive_init(p[1], p[2], d)
        /\ meter = TRUE
        /\ pc = "F"
        /\ at_sleep = FALSE
        /\ is_shutdown = FALSE
        /\ hook = TRUE
        /\ tick_cmds = <<>>
        /\ last_cmd = <<>>
        /\ stops = 0
        /\ fo_steps = 0
        /\ ctor_arg = d
        /\ mission = "drive"
        /\ turned = 0
        /\ ranges = <<>>
        /\ found = NotSearched

NextDrive ==
    \/ OdomUpdate
    \/ Interrupt
    \/ InterruptedExit
    \/ LoopIteration

SpecDrive == InitDrive /\ [][NextDrive]_vars

\* ------------------------------------------------------------------------
\* Properties
\* ------------------------------------------------------------------------
\* the main thread has just run act() on a behaviour that sets done
SteppedToDone ==
    /\ Kind \in {"FollowObject", "WallFollow"}
    /\ ~current_action.done
    /\ current_action' = [current_action EXCEPT !.done = TRUE]

C2_PhaseBInv ==
    pc = "B" =>
        /\ Kind \in {"FollowObject", "WallFollow"}
        /\ fo_steps = (IF Kind = "FollowObject" /\ ~current_action.done THEN 0 ELSE 1)

C2_PhaseBStep ==
    pc = "B" =>
        /\ pc' # "B" => is_shutdown
        /\ (pc' = "B" /\ current_action' # current_action) =>
              /\ ~is_shutdown
              /\ (Kind = "FollowObject" /\ ~current_action.done) =>
                    current_action' = [current_action EXCEPT !.done = TRUE]
              /\ (Kind = "FollowObject" /\ current_action.done) =>
                    (current_action'.kind = "WallFollow" /\ ~current_action'.done)
              /\ (Kind = "WallFollow" /\ ~current_action.done) =>
                    current_action' = [current_action EXCEPT !.done = TRUE]
              /\ (Kind = "WallFollow" /\ current_action.done) =>
                    (current_action'.kind = "WallFollow" /\ ~current_action'.done)
        /\ (pc' = "B" /\ ~is_shutdown /\ at_sleep' /\ ~at_sleep) =>
              current_action' # current_action

\* C2: phase B makes exactly one FollowObject step, then installs a fresh
\* WallFollow on the next iteration; from then on the active behaviour is a
\* WallFollow, stepped and re-installed in turn, and the loop is left only
\* after a shutdown request.
C2_PhaseB == []C2_PhaseBInv /\ [][C2_PhaseBStep]_vars

C2_Witness ==
    pc = "B" /\ ~is_shutdown /\ Kind = "WallFollow" /\ current_action.done /\ fo_steps = 1

\* C3: when the process has ended, state.shutdown has published one zero
\* command and it is the last command published.
C3_FinalStop == ~Alive => (stops = 1 /\ last_cmd = <<Stop>>)

\* C4: ready implies that a pose update and a scan update have been
\* processed, so that every field a behaviour reads is defined.
C4_ReadyMeansBoth ==
    ready => /\ angle # None /\ x # None /\ y # None
             /\ closest_obj_ang # Unset
             /\ closest_obj_front_ang # Unset
             /\ closest_obj_front_dist # Unset

\* C5: every tick of the control loop of a phase publishes exactly one
\* velocity command.
C5_OneCommandPerTick == (pc \in Phases /\ at_sleep) => Len(tick_cmds) = 1

InBand(d, lo, hi) == lo <= d /\ d <= hi

\* the angular error of the step is within 0.04, and the front distance was
\* within [0.9, 1.1] when the step began or when it ended
C7_BothTolerances ==
    /\ Abs(current_action.target_angle - angle) <= WallAngLim
    /\ \/ InBand(closest_obj_front_dist, WallLower, WallUpper)
       \/ InBand(closest_obj_front_dist', WallLower, WallUpper)

C7_MeterStep ==
    /\ meter' # meter =>
          /\ ~meter
          /\ Kind = "WallFollow" /\ SteppedToDone
          /\ C7_BothTolerances
    /\ (Kind = "WallFollow" /\ SteppedToDone /\ ~C7_BothTolerances) => meter' = meter

\* C7: state.meter changes only from false to true, only in a WallFollow
\* step, and only if in that step the angular error is within 0.04 and the
\* front distance within [0.9, 1.1]; a WallFollow step with either
\* tolerance missed leaves it unchanged.
C7_MeterOnlyWhenBoth == [][C7_MeterStep]_vars

C8_LinearLaw(d, lin, lo, hi) ==
    /\ lin = 0 <=> InBand(d, lo, hi)
    /\ d > hi => lin = FollowLinSpeed
    /\ d < lo => lin = -FollowLinSpeed

\* a step through which the front distance held one value
C8_LinearStep ==
    (SteppedToDone /\ closest_obj_front_dist' = closest_obj_front_dist) =>
        C8_LinearLaw(closest_obj_front_dist, tick_cmds'[Len(Before) + 1].linear,
                     IF Kind = "FollowObject" THEN FollowLower ELSE WallLower,
                     IF Kind = "FollowObject" THEN FollowUpper ELSE WallUpper)

\* C8: in a FollowObject or WallFollow step the linear command is zero iff
\* the front distance is inside the band, forward above it and backward
\* below it.
C8_TowardBand == [][C8_LinearStep]_vars

\* C1: without an external interrupt and with every thread scheduled, the
\* mission that has entered phase B goes on through the later phases to the
\* end of phase F.
C1_MissionCompletes == [](pc = "B" => <>(pc = "done"))

C6_Nearest(result, indices) ==
    LET pos == {i \in indices : ranges[i + 1] > 0}
    IN  IF pos = {} THEN result = Raised
        ELSE /\ result # Raised
             /\ result[1] \in pos
             /\ ranges[result[1] + 1] = result[2]
             /\ \A i \in pos : result[2] <= ranges[i + 1]

Cone == (0..(ConeLeftEnd - 1)) \cup (ConeRightStart..(ScanLen - 1))

\* C6: on any scan the forward-cone search returns the nearest strictly
\* positive reading of the cone [0,45) + [315,360) with an index at which it
\* occurs, and raises iff the cone has no strictly positive reading; the
\* full-circle search does the same over [0,360).
C6_NearestSearch ==
    /\ found.op = "front" => C6_Nearest(found.result, Cone)
    /\ found.op = "360" => C6_Nearest(found.result, 0..(ScanLen - 1))

C9_Built ==
    (current_action'.kind = "Turn" /\ Kind # "Turn") =>
        /\ ctor_arg' = (IF Kind = "TurnToObject"
                        THEN rectify_angle_pi(closest_obj_ang) ELSE PhaseETurn)
        /\ current_action'.clockwise = (ctor_arg' < 0)
        /\ current_action'.target_angle = rectify_angle_pi(angle + ctor_arg')
        /\ ~current_action'.done

C9_StepLaw ==
    (pc \in Phases /\ Kind = "Turn" /\ ~current_action.done) =>
        LET r == Act(current_action, Untorn)
        IN  IF Abs(current_action.target_angle - angle) > TurnTol
            THEN /\ r.cmds = <<Twist(0, IF ctor_arg < 0 THEN -TurnSpeed ELSE TurnSpeed)>>
                 /\ r.self = current_action
            ELSE /\ r.cmds = <<Stop>>
                 /\ r.self = [current_action EXCEPT !.done = TRUE]

C9_Done ==
    (Kind = "Turn" /\ current_action'.kind = "Turn" /\ current_action'.done
         /\ ~current_action.done) =>
        /\ Abs(current_action.target_angle - angle) <= TurnTol
        /\ tick_cmds' = <<Stop>>

C10_Within(px, py) ==
    LET dsq == (px - current_action.init_x) * (px - current_action.init_x)
                 + (py - current_action.init_y) * (py - current_action.init_y)
        t   == Abs(ctor_arg)
    IN  /\ dsq <= (t + DriveTol) * (t + DriveTol)
        /\ (t - DriveTol <= 0 \/ dsq >= (t - DriveTol) * (t - DriveTol))

\* a step through which the pose stays at (x, y)
C10_StepLaw ==
    (pc = "F" /\ Kind = "Drive" /\ ~current_action.done) =>
        LET r == Act(current_action, Untorn)
        IN  IF C10_Within(x, y)
            THEN /\ r.cmds = <<Stop>>
                 /\ r.self = [current_action EXCEPT !.done = TRUE]
            ELSE /\ r.cmds = <<Twist(IF ctor_arg >= 0 THEN DriveSpeed ELSE -DriveSpeed, 0)>>
                 /\ r.self = current_action

\* a step sets done only with the pose it began at or the pose it ended at
\* within the tolerance
C10_Done ==
    (Kind = "Drive" /\ current_action'.kind = "Drive" /\ current_action'.done
         /\ ~current_action.done) =>
        /\ C10_Within(x, y) \/ C10_Within(x', y')
        /\ tick_cmds' = <<Stop>>

\* C10: a Drive built with distance d at (x0, y0) is done at the first step
\* with | |d| - dist((x0,y0),(x,y)) | <= 0.02, which publishes only the zero
\* command; every earlier step publishes only (+0.2, 0) if d >= 0 and
\* (-0.2, 0) if not, on either side of the target distance.
C10_Drive == []C10_StepLaw /\ [][C10_Done]_vars

\* the combined command of the step that has just run
C18_Combined == tick_cmds'[Len(Before) + 1]

C18_Step ==
    SteppedToDone =>
        /\ Len(tick_cmds') = Len(Before) + 2 => C18_Combined = Stop
        /\ meter' # meter => C18_Combined = Stop
        /\ C18_Combined.linear # 0 => Len(tick_cmds') = Len(Before) + 1

\* C18: however the scan callback interleaves with a FollowObject or
\* WallFollow step, a step that publishes the extra zero command (or sets
\* state.meter) has published a combined command with zero linear and zero
\* angular velocity, and a step that found the distance out of band and
\* chose a direction does not find it in band.
C18_ConsistentReading == [][C18_Step]_vars

\* C19: the three scan-derived fields are either all undefined or all taken
\* from one scan on which both searches succeed, so a scan update that fails
\* changes none of them, and the front distance is strictly positive.
C19_OneScan ==
    IF closest_obj_ang = Unset
    THEN closest_obj_front_ang = Unset /\ closest_obj_front_dist = Unset
    ELSE \E o \in ScanOutcomes :
            /\ o.o360 # Raised /\ o.front # Raised
            /\ closest_obj_ang = degrees_to_radians(o.o360[1])
            /\ closest_obj_front_ang = degrees_to_radians(o.front[1])
            /\ closest_obj_front_dist = o.front[2]
            /\ closest_obj_front_dist > 0

\* a pass through the loop of the phase has happened: main moved on, or the
\* behaviour or the commands of the tick changed
Ticked ==
    /\ pc \in Phases
    /\ pc' # pc \/ current_action' # current_action \/ tick_cmds' # tick_cmds

C12_Inv ==
    pc \in {"A", "C"} =>
        /\ Kind \in {"TurnToObject", "Turn"}
        /\ Kind = "TurnToObject" => ~current_action.done

C12_Step ==
    (pc \in {"A", "C"} /\ ~is_shutdown /\ Ticked) =>
        /\ Kind = "TurnToObject" =>
              \/ pc' = "crashed"
              \/ /\ pc' = pc
                 /\ current_action'.kind = "Turn"
                 /\ ~current_action'.done
                 /\ current_action'.target_angle =
                        rectify_angle_pi(angle + rectify_angle_pi(closest_obj_ang))
                 /\ tick_cmds' = Before
        /\ (Kind = "Turn" /\ ~current_action.done) =>
              /\ pc' = pc
              /\ current_action'.kind = "Turn"
              /\ current_action'.target_angle = current_action.target_angle
              /\ current_action'.clockwise = current_action.clockwise
              /\ Len(tick_cmds') = Len(Before) + 1
        /\ pc' \in Phases \ {pc} => (Kind = "Turn" /\ current_action.done)

C13_Tick ==
    (pc = "D" /\ ~is_shutdown /\ Ticked) =>
        /\ ~current_action.done =>
              (pc' = "D" /\ current_action' = [current_action EXCEPT !.done = TRUE])
        /\ (current_action.done /\ meter) => pc' = "E"
        /\ (current_action.done /\ ~meter) =>
              (pc' = "D" /\ current_action'.kind = "WallFollow" /\ ~current_action'.done)

C13_MeterSet ==
    (pc = "D" /\ meter' # meter) =>
        (Kind = "WallFollow" /\ SteppedToDone /\ C7_BothTolerances)

\* C13: a tick of phase D steps the WallFollow if it is not done, leaves for
\* phase E if it is done and state.meter is set, and installs a fresh
\* WallFollow if it is done and state.meter is not set; state.meter is set
\* in phase D only by a WallFollow step that met both tolerances, so phase E
\* is reached only after such a step, on the tick after it.
C13_PhaseD == [][C13_Tick /\ C13_MeterSet]_vars

\* the original frame: steps of Turn, Drive and TurnToObject keep the
\* installed behaviour, and no step writes state.meter
C14_OriginalStep ==
    /\ (pc \in Phases /\ pc' = pc /\ Kind \in {"Turn", "Drive", "TurnToObject"}) =>
          current_action'.kind = Kind
    /\ meter' = meter

\* C14: state.current_action is replaced only by main (or by a follow
\* behaviour re-arming itself): no step of Turn, Drive or TurnToObject
\* replaces it, and a step changes no other field of TurtlebotState.
C14_OnlySequencerSwaps == [][C14_OriginalStep]_vars

C14_AmendedStep ==
    /\ (pc \in Phases /\ pc' = pc /\ ~current_action.done
            /\ Kind \in {"Turn", "Drive", "FollowObject", "WallFollow"}) =>
          current_action' \in {current_action, [current_action EXCEPT !.done = TRUE]}
    /\ (pc \in Phases /\ pc' = pc /\ Kind = "TurnToObject"
            /\ current_action' # current_action) =>
          (current_action'.kind = "Turn" /\ ~current_action'.done)
    /\ meter' # meter => (Kind = "WallFollow" /\ SteppedToDone /\ meter')
    /\ ready' # ready =>
          (pc' = pc /\ current_action' = current_action /\ tick_cmds' = tick_cmds)

\* C14 as amended: state.current_action is replaced only by main and by the
\* TurnToObject step, which installs a fresh Turn; a step of Turn, Drive,
\* FollowObject or WallFollow changes at most its own done flag; state.meter
\* is written only by a WallFollow step, which sets it; ready is written
\* only by the two callbacks.
C14_SwapsAndMeter == [][C14_AmendedStep]_vars

C14_Witness ==
    /\ pc = "C" /\ Kind = "Turn" /\ ~current_action.done
    /\ at_sleep /\ tick_cmds = <<>> /\ ~is_shutdown

\* the termination test of a step that set done: for a Turn the heading is
\* within 0.02 of the target; for a Drive a pose it can have read is within
\* 0.02 of the target distance; the other kinds end after one step
C15_ConditionMet ==
    CASE Kind = "Turn" -> Abs(current_action.target_angle - angle) <= TurnTol
      [] Kind = "Drive" -> \E px \in {x, x'}, py \in {y, y'} : C10_Within(px, py)
      [] OTHER -> TRUE

C15_Step ==
    pc \in Phases =>
        /\ current_action' # current_action => ~current_action'.done \/ ~current_action.done
        /\ (~current_action.done /\ current_action'.kind = Kind /\ current_action'.done) =>
              /\ current_action' = [current_action EXCEPT !.done = TRUE]
              /\ C15_ConditionMet
        /\ (current_action'.kind # Kind /\ pc' \in Phases) => ~current_action'.done
        /\ current_action.done =>
              /\ tick_cmds' \in {tick_cmds, <<>>}
              /\ meter' = meter
              /\ current_action' # current_action => ~current_action'.done

C16_Command ==
    IF Kind = "Turn"
    THEN Twist(0, IF current_action.clockwise THEN -TurnSpeed ELSE TurnSpeed)
    ELSE Twist(IF current_action.forward THEN DriveSpeed ELSE -DriveSpeed, 0)

\* a Turn or Drive installed, not done, its error above 0.02
C16_Pending ==
    /\ pc \in Phases /\ ~is_shutdown
    /\ Kind \in {"Turn", "Drive"} /\ ~current_action.done
    /\ IF Kind = "Turn" THEN Abs(current_action.target_angle - angle) > TurnTol
       ELSE ~C10_Within(x, y)

C16_Enabled ==
    C16_Pending =>
        /\ C16_Command # Stop
        /\ Act(current_action, Untorn) = Acted(current_action, <<C16_Command>>)

C16_Step ==
    (C16_Pending /\ angle' = angle /\ x' = x /\ y' = y) =>
        /\ pc' = pc
        /\ current_action' = current_action
        /\ meter' = meter
        /\ tick_cmds' \in {tick_cmds, Before \o <<C16_Command>>}

\* C16: while no pose update arrives, a Turn or Drive whose error is above
\* 0.02 is stepped on every tick until a shutdown request: each step
\* publishes the same non-zero command, done stays false and the phase is
\* not left.
C16_NoTimeout == []C16_Enabled /\ [][C16_Step]_vars

C16_Witness ==
    /\ pc = "F" /\ Kind = "Drive" /\ ~current_action.done /\ ~is_shutdown
    /\ at_sleep /\ tick_cmds = <<Twist(DriveSpeed, 0)>>

\* the bearings of the scenario, as update_scan stores them
C11_Sensed ==
    /\ closest_obj_ang = degrees_to_radians(90)
    /\ closest_obj_front_ang = degrees_to_radians(30)
    /\ closest_obj_front_dist = (FollowLower + FollowUpper) \div 2

\* TurnToObject stepped at heading 0 installs a Turn to pi/2
C11_Dispatch ==
    (pc = "A" /\ Kind = "TurnToObject" /\ angle = 0 /\ current_action' # current_action
        /\ pc' = "A") =>
        /\ current_action'.kind = "Turn"
        /\ current_action'.target_angle = QuarterTurn
        /\ ~current_action'.done

\* phase B opens from the Turn done, with a FollowObject aimed at the
\* bearing of the cone object
C11_Installed ==
    (pc = "A" /\ pc' = "B" /\ ~is_shutdown) =>
        /\ Kind = "Turn" /\ current_action.done
        /\ current_action'.kind = "FollowObject"
        /\ ~current_action'.done
        /\ current_action'.target_angle = rectify_angle_pi(angle + degrees_to_radians(30))

\* the first step of that FollowObject, the heading as it was at the install
C11_FirstStep ==
    /\ pc = "B" /\ pc' = "B" /\ ~is_shutdown
    /\ Kind = "FollowObject" /\ ~current_action.done
    /\ current_action.target_angle = rectify_angle_pi(angle + degrees_to_radians(30))
    /\ current_action' # current_action

C11_OriginalStep ==
    C11_FirstStep => (tick_cmds' = <<Stop, Stop>> /\ current_action'.done)

\* C11: heading 0, the nearest object of the full circle at bearing 90, the
\* nearest of the cone at bearing 30 and 0.5 m: TurnToObject installs a Turn
\* to pi/2; once it is done the FollowObject installed publishes zero linear
\* and zero angular velocity on its first step, and is done after it.
C11_Scenario == []C11_Sensed /\ [][C11_Dispatch /\ C11_OriginalStep]_vars

C11_AmendedStep ==
    C11_FirstStep =>
        /\ tick_cmds' = <<Twist(0, FollowAngSpeed)>>
        /\ current_action' = [current_action EXCEPT !.done = TRUE]
        /\ ~meter'

\* C11 as amended: TurnToObject installs a Turn to pi/2; once it is done the
\* FollowObject installed takes heading + 30 degrees as its target, so its
\* first step publishes zero linear velocity and angular velocity +0.4,
\* with no extra zero command, and is done after it.
C11_ScenarioTurnsOn ==
    []C11_Sensed /\ [][C11_Dispatch /\ C11_Installed /\ C11_AmendedStep]_vars

C11_Witness ==
    /\ pc = "B" /\ current_action.kind \in {"FollowObject"} /\ current_action.done
    /\ tick_cmds = <<Twist(0, FollowAngSpeed)>> /\ ~is_shutdown

\* the rotation asked of the Turn of the run
C20_Delta == Abs(ctor_arg)

C20_Rotation ==
    (Kind = "Turn" /\ current_action.done) =>
        (turned >= C20_Delta - TurnTol /\ turned <= C20_Delta + TurnTol)

\* C20: the heading advancing one resolution step a tick in the direction of
\* the command and wrapping into (-pi, pi], every Turn built with a delta in
\* (-pi, pi] at any heading is eventually done, having rotated |delta|
\* within 0.02, also when the rotation crosses +-pi.
C20_TurnCompletes == <>(pc = "F") /\ []C20_Rotation

\* a Turn done after crossing the wrap counter-clockwise
C20_Witness ==
    /\ Kind = "Turn" /\ current_action.done /\ ~current_action.clockwise
    /\ turned > 0 /\ angle - turned < -PI

\* C17: the front distance and the heading answering the commands one
\* resolution step a tick, the re-arm loop of phase D eventually sets
\* state.meter and phase D is left, whatever the front distance it began at.
C17_WallReached == <>(meter /\ pc = "E")

====
